---- MODULE Spec2Model ----
(***************************************************************************)
(* efiver.py: the firmware-image introspection core.  An image is a byte   *)
(* buffer read through a file object (seek/read with a file pointer);      *)
(* EFI.getVersion, GUID.search and BoardID.getIDs are loops over that      *)
(* file object, modelled one loop iteration per step; the registry and     *)
(* the update advisor are pure functions, modelled as operators.           *)
(***************************************************************************)
EXTENDS Integers, Sequences, FiniteSets, TLC

(***************************************************************************)
(* Characters are one-character strings; Ascii[b + 1] is the character of  *)
(* code point b (control characters have a printable stand-in).  Text is a *)
(* sequence of characters, bytes are sequences of 0..255.                  *)
(***************************************************************************)
Ascii ==
  <<
    "NUL", "<01>", "<02>", "<03>", "<04>", "<05>", "<06>", "<07>",
    "<08>", "<09>", "<0A>", "<0B>", "<0C>", "<0D>", "<0E>", "<0F>",
    "<10>", "<11>", "<12>", "<13>", "<14>", "<15>", "<16>", "<17>",
    "<18>", "<19>", "<1A>", "<1B>", "<1C>", "<1D>", "<1E>", "<1F>",
    " ", "!", "\"", "#", "$", "%", "&", "'",
    "(", ")", "*", "+", ",", "-", ".", "/",
    "0", "1", "2", "3", "4", "5", "6", "7",
    "8", "9", ":", ";", "<", "=", ">", "?",
    "@", "A", "B", "C", "D", "E", "F", "G",
    "H", "I", "J", "K", "L", "M", "N", "O",
    "P", "Q", "R", "S", "T", "U", "V", "W",
    "X", "Y", "Z", "[", "\\", "]", "^", "_",
    "<60>", "a", "b", "c", "d", "e", "f", "g",
    "h", "i", "j", "k", "l", "m", "n", "o",
    "p", "q", "r", "s", "t", "u", "v", "w",
    "x", "y", "z", "{", "|", "}", "~", "<7F>"
  >>

Chr(b) == Ascii[b + 1]

Ord(c) == CHOOSE b \in 0..127 : Ascii[b + 1] = c

RECURSIVE Join(_)
Join(s) == IF s = <<>> THEN "" ELSE Head(s) \o Join(Tail(s))

\* The texts held as strings in the state, and their characters.
Texts ==
  <<
    <<"",
      <<>>>>,
    <<"IM142_0118_B00.scap",
      <<"I", "M", "1", "4", "2", "_", "0", "1", "1", "8", "_", "B", "0", "0", ".", "s", "c", "a", "p">>>>,
    <<"MBP143_0167_B00.scap",
      <<"M", "B", "P", "1", "4", "3", "_", "0", "1", "6", "7", "_", "B", "0", "0", ".", "s", "c", "a", "p">>>>,
    <<"MM71_0220_B00.scap",
      <<"M", "M", "7", "1", "_", "0", "2", "2", "0", "_", "B", "0", "0", ".", "s", "c", "a", "p">>>>,
    <<"MP51_007F_03B.scap",
      <<"M", "P", "5", "1", "_", "0", "0", "7", "F", "_", "0", "3", "B", ".", "s", "c", "a", "p">>>>,
    <<"MP51.scap",
      <<"M", "P", "5", "1", ".", "s", "c", "a", "p">>>>,
    <<"IM171_0105_B20.fd",
      <<"I", "M", "1", "7", "1", "_", "0", "1", "0", "5", "_", "B", "2", "0", ".", "f", "d">>>>,
    <<"MBP133_0233_B00.fd",
      <<"M", "B", "P", "1", "3", "3", "_", "0", "2", "3", "3", "_", "B", "0", "0", ".", "f", "d">>>>,
    <<"IM183_0151_B00.scap",
      <<"I", "M", "1", "8", "3", "_", "0", "1", "5", "1", "_", "B", "0", "0", ".", "s", "c", "a", "p">>>>,
    <<"MM71.fd",
      <<"M", "M", "7", "1", ".", "f", "d">>>>,
    <<"IM142.88Z.0118.B00.1708080133",
      <<"I", "M", "1", "4", "2", ".", "8", "8", "Z", ".", "0", "1", "1", "8", ".", "B", "0", "0", ".", "1", "7", "0", "8", "0", "8", "0", "1", "3", "3">>>>,
    <<"MBP143.88Z.0167.B00.1801010000",
      <<"M", "B", "P", "1", "4", "3", ".", "8", "8", "Z", ".", "0", "1", "6", "7", ".", "B", "0", "0", ".", "1", "8", "0", "1", "0", "1", "0", "0", "0", "0">>>>,
    <<"MM71.88Z.0220.B00.1708080133",
      <<"M", "M", "7", "1", ".", "8", "8", "Z", ".", "0", "2", "2", "0", ".", "B", "0", "0", ".", "1", "7", "0", "8", "0", "8", "0", "1", "3", "3">>>>,
    <<"MP51.88Z.007F.B03.1706010000",
      <<"M", "P", "5", "1", ".", "8", "8", "Z", ".", "0", "0", "7", "F", ".", "B", "0", "3", ".", "1", "7", "0", "6", "0", "1", "0", "0", "0", "0">>>>,
    <<"IM171.88Z.0105.B20.1708080133",
      <<"I", "M", "1", "7", "1", ".", "8", "8", "Z", ".", "0", "1", "0", "5", ".", "B", "2", "0", ".", "1", "7", "0", "8", "0", "8", "0", "1", "3", "3">>>>,
    <<"IM142.88Z.0118.B00.1706010000",
      <<"I", "M", "1", "4", "2", ".", "8", "8", "Z", ".", "0", "1", "1", "8", ".", "B", "0", "0", ".", "1", "7", "0", "6", "0", "1", "0", "0", "0", "0">>>>,
    <<"IM142.88Z.0118.B00.1801010000",
      <<"I", "M", "1", "4", "2", ".", "8", "8", "Z", ".", "0", "1", "1", "8", ".", "B", "0", "0", ".", "1", "8", "0", "1", "0", "1", "0", "0", "0", "0">>>>,
    <<"Raw EFI Version string: UNSPEC.00Z.0000.B00.0000000000",
      <<"R", "a", "w", " ", "E", "F", "I", " ", "V", "e", "r", "s", "i", "o", "n", " ", "s", "t", "r", "i", "n", "g", ":", " ", "U", "N", "S", "P", "E", "C", ".", "0", "0", "Z", ".", "0", "0", "0", "0", ".", "B", "0", "0", ".", "0", "0", "0", "0", "0", "0", "0", "0", "0", "0">>>>,
    <<"IM142.88Z.0118.B00.1708080134",
      <<"I", "M", "1", "4", "2", ".", "8", "8", "Z", ".", "0", "1", "1", "8", ".", "B", "0", "0", ".", "1", "7", "0", "8", "0", "8", "0", "1", "3", "4">>>>,
    <<"IM142.88Z.0118.B00.0912312359",
      <<"I", "M", "1", "4", "2", ".", "8", "8", "Z", ".", "0", "1", "1", "8", ".", "B", "0", "0", ".", "0", "9", "1", "2", "3", "1", "2", "3", "5", "9">>>>,
    <<"IM142.88Z.0118.B00.9901010000",
      <<"I", "M", "1", "4", "2", ".", "8", "8", "Z", ".", "0", "1", "1", "8", ".", "B", "0", "0", ".", "9", "9", "0", "1", "0", "1", "0", "0", "0", "0">>>>,
    <<"IM142.88Z.0118.B00.1708080000",
      <<"I", "M", "1", "4", "2", ".", "8", "8", "Z", ".", "0", "1", "1", "8", ".", "B", "0", "0", ".", "1", "7", "0", "8", "0", "8", "0", "0", "0", "0">>>>,
    <<"IM142.88Z.0118.B00.1712010000",
      <<"I", "M", "1", "4", "2", ".", "8", "8", "Z", ".", "0", "1", "1", "8", ".", "B", "0", "0", ".", "1", "7", "1", "2", "0", "1", "0", "0", "0", "0">>>>,
    <<"IM142.88Z.0118.B00.170808013",
      <<"I", "M", "1", "4", "2", ".", "8", "8", "Z", ".", "0", "1", "1", "8", ".", "B", "0", "0", ".", "1", "7", "0", "8", "0", "8", "0", "1", "3">>>>,
    <<"IM142.88Z.0118.B00.2",
      <<"I", "M", "1", "4", "2", ".", "8", "8", "Z", ".", "0", "1", "1", "8", ".", "B", "0", "0", ".", "2">>>>,
    <<"IM142.88Z.0118",
      <<"I", "M", "1", "4", "2", ".", "8", "8", "Z", ".", "0", "1", "1", "8">>>>,
    <<"MP51.88Z.007F.B03.1005010000",
      <<"M", "P", "5", "1", ".", "8", "8", "Z", ".", "0", "0", "7", "F", ".", "B", "0", "3", ".", "1", "0", "0", "5", "0", "1", "0", "0", "0", "0">>>>
  >>

\* the characters of a text of Texts
Text(t) == Texts[CHOOSE i \in 1..Len(Texts) : Texts[i][1] = t][2]

Min(S) == CHOOSE m \in S : \A n \in S : m <= n

Max(S) == CHOOSE m \in S : \A n \in S : m >= n

IsDigit(c) == Ord(c) \in 48..57

IsAlnum(c) == Ord(c) \in (48..57) \cup (65..90) \cup (97..122)

StartsWith(s, p) == Len(s) >= Len(p) /\ SubSeq(s, 1, Len(p)) = p

EndsWith(s, p) == Len(s) >= Len(p) /\ SubSeq(s, Len(s) - Len(p) + 1, Len(s)) = p

\* str.split(sep): the fields between the occurrences of the character sep.
RECURSIVE Split(_, _)
Split(s, sep) ==
  IF \A i \in 1..Len(s) : s[i] # sep
    THEN <<s>>
    ELSE LET i == Min({j \in 1..Len(s) : s[j] = sep})
         IN  <<SubSeq(s, 1, i - 1)>> \o Split(SubSeq(s, i + 1, Len(s)), sep)

\* str.replace(c, empty): every occurrence of the character c removed.
Remove(s, c) == SelectSeq(s, LAMBDA ch : ch # c)

\* Python's < on strings: lexicographic by code point, a proper prefix first.
RECURSIVE StrLess(_, _)
StrLess(a, b) ==
  IF b = <<>> THEN FALSE
  ELSE IF a = <<>> THEN TRUE
  ELSE IF Head(a) # Head(b) THEN Ord(Head(a)) < Ord(Head(b))
  ELSE StrLess(Tail(a), Tail(b))

oldStyleFWModels ==
  {
    <<"M", "B", "5", "1">>, <<"M", "B", "5", "2">>, <<"M", "B", "6", "1">>, <<"M", "B", "7", "1">>,
    <<"M", "B", "P", "4", "1">>, <<"M", "B", "P", "5", "1">>, <<"M", "B", "P", "5", "2">>, <<"M", "B", "P", "5", "3">>,
    <<"M", "B", "P", "5", "5">>, <<"M", "B", "P", "6", "1">>, <<"M", "B", "P", "7", "1">>, <<"M", "B", "P", "8", "1">>,
    <<"M", "B", "P", "9", "1">>, <<"M", "B", "P", "1", "0", "1">>, <<"M", "B", "P", "1", "0", "2">>, <<"M", "B", "A", "2", "1">>,
    <<"M", "B", "A", "3", "1">>, <<"M", "B", "A", "4", "1">>, <<"M", "B", "A", "5", "1">>, <<"I", "M", "8", "1">>,
    <<"I", "M", "9", "1">>, <<"I", "M", "1", "0", "1">>, <<"I", "M", "1", "1", "1">>, <<"I", "M", "1", "1", "2">>,
    <<"I", "M", "1", "2", "1">>, <<"I", "M", "1", "3", "1">>, <<"M", "M", "3", "2">>, <<"M", "M", "4", "1">>,
    <<"M", "M", "5", "1">>, <<"M", "M", "6", "1">>, <<"M", "P", "5", "1">>, <<"M", "P", "6", "1">>
  }

boardIDModelIDs ==
  <<
    <<"Mac-F22C8AC8", "MacBook6,1">>,
    <<"Mac-F22C89C8", "MacBook7,1">>,
    <<"Mac-BE0E8AC46FE800CC", "MacBook8,1">>,
    <<"Mac-F305150B0C7DEEEF", "MacBook8,x">>,
    <<"Mac-9AE82516C7C6B903", "MacBook9,1">>,
    <<"Mac-EE2EBD4B90B839A8", "MacBook10,1">>,
    <<"Mac-F22589C8", "MacBookPro6,1">>,
    <<"Mac-F22586C8", "MacBookPro6,2">>,
    <<"Mac-F222BEC8", "MacBookPro7,1">>,
    <<"Mac-94245B3640C91C81", "MacBookPro8,1">>,
    <<"Mac-94245A3940C91C80", "MacBookPro8,2">>,
    <<"Mac-942459F5819B171B", "MacBookPro8,3">>,
    <<"Mac-4B7AC7E43945597E", "MacBookPro9,1">>,
    <<"Mac-6F01561E16C75D06", "MacBookPro9,2">>,
    <<"Mac-C3EC7CD22292981F", "MacBookPro10,1">>,
    <<"Mac-AFD8A9D944EA4843", "MacBookPro10,2">>,
    <<"Mac-189A3D4F975D5FFC", "MacBookPro11,1">>,
    <<"Mac-D1FF70AF6D8C849A", "MacBookPro11,x">>,
    <<"Mac-3CBD00234E554E41", "MacBookPro11,2">>,
    <<"Mac-2BD1B31983FE1663", "MacBookPro11,3">>,
    <<"Mac-06F11FD93F0323C5", "MacBookPro11,4">>,
    <<"Mac-06F11F11946D27C5", "MacBookPro11,5">>,
    <<"Mac-E43C1C25D4880AD6", "MacBookPro12,1">>,
    <<"Mac-473D31EABEB93F9B", "MacBookPro13,1">>,
    <<"Mac-66E35819EE2D0D05", "MacBookPro13,2">>,
    <<"Mac-1BDAB09B689867E2", "MacBookPro13,x">>,
    <<"Mac-A5C67F76ED83108C", "MacBookPro13,3">>,
    <<"Mac-B4831CEBD52A0C4C", "MacBookPro14,1">>,
    <<"Mac-CAD6701F7CEA0921", "MacBookPro14,2">>,
    <<"Mac-551B86E5744E2388", "MacBookPro14,3">>,
    <<"Mac-942452F5819B1C1B", "MacBookAir3,1">>,
    <<"Mac-942C5DF58193131B", "MacBookAir3,2">>,
    <<"Mac-C08A6BB70A942AC2", "MacBookAir4,1">>,
    <<"Mac-742912EFDBEE19B3", "MacBookAir4,2">>,
    <<"Mac-66F35F19FE2A0D05", "MacBookAir5,1">>,
    <<"Mac-2E6FAB96566FE58C", "MacBookAir5,2">>,
    <<"Mac-35C1E88140C3E6CF", "MacBookAir6,1">>,
    <<"Mac-7DF21CB3ED6977E5", "MacBookAir6,2">>,
    <<"Mac-9F18E312C5C2BF0B", "MacBookAir7,1">>,
    <<"Mac-937CB26E2E02BB01", "MacBookAir7,2">>,
    <<"Mac-F2268CC8", "iMac10,1">>,
    <<"Mac-F2268DAE", "iMac11,1">>,
    <<"Mac-F2238AC8", "iMac11,2">>,
    <<"Mac-F2238BAE", "iMac11,3">>,
    <<"Mac-942B5BF58194151B", "iMac12,1">>,
    <<"Mac-942B59F58194171B", "iMac12,2">>,
    <<"Mac-00BE6ED71E35EB86", "iMac13,1">>,
    <<"Mac-FC02E91DDD3FA6A4", "iMac13,2">>,
    <<"Mac-7DF2A3B5E5D671ED", "iMac13,3">>,
    <<"Mac-031B6874CF7F642A", "iMac14,1">>,
    <<"Mac-27ADBB7B4CEE8E61", "iMac14,2">>,
    <<"Mac-77EB7D7DAF985301", "iMac14,3">>,
    <<"Mac-81E3E92DD6088272", "iMac14,4">>,
    <<"Mac-FA842E06C61E91C5", "iMac15,1">>,
    <<"Mac-42FD25EABCABB274", "iMac15,1">>,
    <<"Mac-A369DDC4E67F1C45", "iMac16,1">>,
    <<"Mac-FFE5EF870D7BA81A", "iMac16,2">>,
    <<"Mac-DB15BD556843C820", "iMac17,1">>,
    <<"Mac-65CE76090165799A", "iMac17,1">>,
    <<"Mac-B809C3757DA9BB8D", "iMac17,1">>,
    <<"Mac-4B682C642B45593E", "iMac18,1">>,
    <<"Mac-77F17D7DA9285301", "iMac18,2">>,
    <<"Mac-BE088AF8C5EB4FA2", "iMac18,3">>,
    <<"Mac-F2208EC8", "Macmini4,1">>,
    <<"Mac-8ED6AF5B48C039E1", "Macmini5,1">>,
    <<"Mac-4BC72D62AD45599E", "Macmini5,2">>,
    <<"Mac-7BA5B2794B2CDB12", "Macmini5,3">>,
    <<"Mac-031AEE4D24BFF0B1", "Macmini6,1">>,
    <<"Mac-F65AE981FFA204ED", "Macmini6,2">>,
    <<"Mac-35C5E08120C7EEAF", "Macmini7,1">>,
    <<"Mac-F221BEC8", "MacPro4,1">>,
    <<"Mac-F221DCC8", "MacPro5,1">>,
    <<"Mac-F60DEB81FF30ACF6", "MacPro6,1">>,
    <<"Mac-7BA5B2D9E42DDD94", "iMacPro1,1">>,
    <<"Mac-CF21D135A7D34AA6", "Unknown">>,
    <<"Mac-112B0A653D3AAB9C", "Unknown">>,
    <<"Mac-90BE64C3CB5A9AEB", "Unknown">>
  >>

(***************************************************************************)
(* Byte patterns.                                                          *)
(***************************************************************************)
\* "$IBIOSI$"
IBIOSI == <<36, 73, 66, 73, 79, 83, 73, 36>>

\* Apple UUID C3E36D09-8294-4B97-A857-D5288FE33E28 as compared by GUID.search
UUID_A == <<"0", "9", "6", "d", "e", "3", "c", "3", "9", "4", "8", "2", "9", "7", "4", "b", "a", "8", "5", "7", "d", "5", "2", "8", "8", "f", "e", "3", "3", "e", "2", "8">>

\* Apple UUID 781F254A-C457-5D13-9275-1BF5D56E0724
UUID_B == <<"4", "a", "2", "5", "1", "f", "7", "8", "5", "7", "c", "4", "1", "3", "5", "d", "9", "2", "7", "5", "1", "b", "f", "5", "d", "5", "6", "e", "0", "7", "2", "4">>

\* Apple UUID 11380FF9-CFBF-5CD5-997E-83FD089569F0
UUID_C == <<"f", "9", "0", "f", "3", "8", "1", "1", "b", "f", "c", "f", "d", "5", "5", "c", "9", "9", "7", "e", "8", "3", "f", "d", "0", "8", "9", "5", "6", "9", "f", "0">>

\* the unused board-id slot
UNUSED == <<255, 255, 255, 255, 255, 255, 255, 255>>

HexDigits == <<"0", "1", "2", "3", "4", "5", "6", "7", "8", "9", "a", "b", "c", "d", "e", "f">>

\* binascii.hexlify: two lowercase hexadecimal characters per byte.
RECURSIVE Hexlify(_)
Hexlify(bytes) ==
  IF bytes = <<>> THEN <<>>
  ELSE <<HexDigits[(Head(bytes) \div 16) + 1], HexDigits[(Head(bytes) % 16) + 1]>>
       \o Hexlify(Tail(bytes))

\* str.upper on one character.
UpperChar(c) == IF Ord(c) \in 97..122 THEN Chr(Ord(c) - 32) ELSE c

Upper(s) == [i \in 1..Len(s) |-> UpperChar(s[i])]

(***************************************************************************)
(* ModelIdentifierRegistry: Model.getID, Model.getByBoardID,               *)
(* BoardID.getByModelID.                                                   *)
(***************************************************************************)
\* number[:x] for x = len(number) - 1: all characters but the last.
AllButLast(number) == IF number = <<>> THEN <<>> ELSE SubSeq(number, 1, Len(number) - 1)

\* number[-1:]: the last character, or the empty string.
LastOnly(number) == IF number = <<>> THEN <<>> ELSE SubSeq(number, Len(number), Len(number))

\* '<family>%s,%s' % (number[:x], number[-1:])
FormatID(family, number) ==
  family \o Join(AllButLast(number)) \o "," \o Join(LastOnly(number))

ModelGetID(id) ==
  LET number == SelectSeq(id, IsDigit)
  IN  IF StartsWith(id, <<"I", "M">>) THEN FormatID("iMac", number)
      ELSE IF StartsWith(id, <<"I", "M", "P">>) THEN FormatID("iMacPro", number)
      ELSE IF StartsWith(id, <<"M", "B", "P">>) THEN FormatID("MacBookPro", number)
      ELSE IF StartsWith(id, <<"M", "B", "A">>) THEN FormatID("MacBookAir", number)
      ELSE IF StartsWith(id, <<"M", "B">>) THEN FormatID("MacBook", number)
      ELSE IF StartsWith(id, <<"M", "M">>) THEN FormatID("Macmini", number)
      ELSE IF StartsWith(id, <<"M", "P">>) THEN FormatID("MacPro", number)
      ELSE "Unknown"

\* for x in boardIDModelIDs: if modelID == x[1]: return x[0]
RECURSIVE GetByModelIDFrom(_, _)
GetByModelIDFrom(i, modelID) ==
  IF i > Len(boardIDModelIDs) THEN "Unknown"
  ELSE IF modelID = boardIDModelIDs[i][2] THEN boardIDModelIDs[i][1]
  ELSE GetByModelIDFrom(i + 1, modelID)

\* the row's model name returned in place of its board-id
GetByModelID_WrongColumn(modelID) ==
  IF \E i \in 1..Len(boardIDModelIDs) : boardIDModelIDs[i][2] = modelID
    THEN modelID
    ELSE "Unknown"

GetByModelID(modelID) == GetByModelIDFrom(1, modelID)

\* for x in boardIDModelIDs: if boardID == x[0]: return x[1]
RECURSIVE GetByBoardIDFrom(_, _)
GetByBoardIDFrom(i, boardID) ==
  IF i > Len(boardIDModelIDs) THEN "Unknown"
  ELSE IF boardID = boardIDModelIDs[i][1] THEN boardIDModelIDs[i][2]
  ELSE GetByBoardIDFrom(i + 1, boardID)

GetByBoardID(boardID) == GetByBoardIDFrom(1, boardID)

(***************************************************************************)
(* UpdateAdvisor: EFI.shouldWarnAboutUpdate.                               *)
(***************************************************************************)
\* split('.')[4] raises IndexError when the string has fewer than 5 fields;
\* the reference version is split first, inside the Darwin branch.
ShouldWarnRaises(system, raw, bios) ==
  /\ system = "Darwin"
  /\ \/ Len(Split(raw, ".")) < 5
     \/ Len(Split(bios, ".")) < 5

\* myBiosDate <= biosDate in place of myBiosDate < biosDate
ShouldWarnAboutUpdate_OrEqual(system, raw, bios) ==
  /\ system = "Darwin"
  /\ LET myBiosDate == Split(raw, ".")[5]
         biosDate == Remove(Split(bios, ".")[5], "NUL")
     IN  myBiosDate = biosDate \/ StrLess(myBiosDate, biosDate)

ShouldWarnAboutUpdate(system, raw, bios) ==
  /\ system = "Darwin"
  /\ LET myBiosDate == Split(raw, ".")[5]
         biosDate == Remove(Split(bios, ".")[5], "NUL")
     IN  StrLess(myBiosDate, biosDate)

(***************************************************************************)
(* Firmware images and the file object.  An image is described by what is  *)
(* placed in it; Byte gives its content at every offset, 0 elsewhere.      *)
(*   markers   offsets of "$IBIOSI$", each followed by the 65-byte record  *)
(*   ver       the text of that record (recOK = FALSE: 65 bytes 0xFF)      *)
(*   patA/B/C  offsets of the three 16-byte UUIDs                          *)
(*   tblBase   offset of the first board-id slot, tblStride bytes apart,   *)
(*   codes     one number per slot: 0 is the unused slot (eight 0xFF)      *)
(***************************************************************************)
HexVal(c) == CHOOSE v \in 0..15 : HexDigits[v + 1] = c

\* binascii.unhexlify: the bytes a hexadecimal text stands for.
Unhexlify(h) == [i \in 1..(Len(h) \div 2) |-> 16 * HexVal(h[2 * i - 1]) + HexVal(h[2 * i])]

BytesA == Unhexlify(UUID_A)

BytesB == Unhexlify(UUID_B)

BytesC == Unhexlify(UUID_C)

\* the 8 bytes of slot content number k
CodeBytes(k) ==
  IF k = 0 THEN UNUSED
  ELSE IF k = 1 THEN <<39, 173, 187, 123, 76, 238, 142, 97>>   \* Mac-27ADBB7B4CEE8E61
  ELSE IF k = 2 THEN <<129, 227, 233, 45, 214, 8, 130, 114>>   \* Mac-81E3E92DD6088272
  ELSE [i \in 1..8 |-> (16 * k + i) % 256]

\* ' \x00 \x00 \x00I\x00M\x00...': three spaces and the text, a NUL after
\* every character, 65 bytes in all.
RecordBytes(img) ==
  LET text == <<" ", " ", " ">> \o Text(img.ver)
  IN  [i \in 1..65 |->
         IF ~img.recOK THEN 255
         ELSE IF i % 2 = 1 /\ (i + 1) \div 2 <= Len(text) THEN Ord(text[(i + 1) \div 2])
         ELSE 0]

Byte(img, off) ==
  LET ms == {m \in img.markers : off \in m..(m + 72)}
      as == {g \in img.patA : off \in g..(g + 15)}
      bs == {g \in img.patB : off \in g..(g + 15)}
      cs == {g \in img.patC : off \in g..(g + 15)}
      slot == (off - img.tblBase) \div img.tblStride
  IN  IF ms # {}
        THEN LET m == Max(ms)
             IN  IF off < m + 8 THEN IBIOSI[off - m + 1] ELSE RecordBytes(img)[off - m - 7]
      ELSE IF as # {} THEN BytesA[off - Max(as) + 1]
      ELSE IF bs # {} THEN BytesB[off - Max(bs) + 1]
      ELSE IF cs # {} THEN BytesC[off - Max(cs) + 1]
      ELSE IF /\ off >= img.tblBase
              /\ slot < Len(img.codes)
              /\ (off - img.tblBase) % img.tblStride < 8
        THEN CodeBytes(img.codes[slot + 1])[((off - img.tblBase) % img.tblStride) + 1]
      ELSE 0

\* f.read(n) with the file pointer at pos: the bytes up to the end of file.
Read(img, pos, n) ==
  LET avail == IF pos >= img.size THEN 0 ELSE IF img.size - pos < n THEN img.size - pos ELSE n
  IN  [i \in 1..avail |-> Byte(img, pos + i - 1)]

\* bytes.decode(utf-8) raises on a byte that cannot occur in UTF-8.  The 65
\* bytes after a marker are ASCII or 0xFF in the images used here, so a
\* byte above 127 stands for a failing decode.
DecodeFails(bytes) == \E i \in 1..Len(bytes) : bytes[i] > 127

Decode(bytes) == [i \in 1..Len(bytes) |-> Chr(bytes[i])]

(***************************************************************************)
(* State.                                                                  *)
(*   pc              the statement about to run                            *)
(*   platformSystem, myBoardID, rawVersion   main's host data              *)
(*   files           the EFIPayloads directory, in glob order              *)
(*   fileType, fidx  main's two loops: 1 = *.scap, 2 = *.fd; fidx is the   *)
(*                   index of the open file among those of the type        *)
(*   f, fpos         the open file and its file pointer                    *)
(*   mPosition       main's local 'position'                               *)
(*   position        'position' of the running callee (EFI.getVersion,     *)
(*                   GUID.search, BoardID.getIDs)                          *)
(*   filesize        GUID.search's parameter                               *)
(*   biosID, count, boardIDs, trailingBytes, linePrinted,                  *)
(*   warnAboutEFIVersion   as in the source                                *)
(*   printed         the rows written so far                               *)
(*   arg, ret        argument and results of a function called on its own  *)
(***************************************************************************)
VARIABLES pc, platformSystem, myBoardID, rawVersion, files, fileType, fidx,
          f, fpos, mPosition, position, filesize, biosID, count, boardIDs,
          trailingBytes, linePrinted, warnAboutEFIVersion, printed, arg, ret

vars == <<pc, platformSystem, myBoardID, rawVersion, files, fileType, fidx,
          f, fpos, mPosition, position, filesize, biosID, count, boardIDs,
          trailingBytes, linePrinted, warnAboutEFIVersion, printed, arg, ret>>

hostVars == <<platformSystem, myBoardID, rawVersion, files>>

loopVars == <<fileType, fidx>>

reportVars == <<linePrinted, warnAboutEFIVersion, printed>>

callVars == <<arg, ret>>

NoFile == [name |-> "", size |-> 0, markers |-> {}, ver |-> "", recOK |-> TRUE,
           patA |-> {}, patB |-> {}, patC |-> {}, tblBase |-> 0, tblStride |-> 8,
           codes |-> <<>>]

GLOB_SCAP_EXTENSION == <<".", "s", "c", "a", "p">>

GLOB_FD_EXTENSION == <<".", "f", "d">>

targetFileTypes == <<GLOB_SCAP_EXTENSION, GLOB_FD_EXTENSION>>

\* glob.glob(EFIPayloads/*.<ext>): the files of the directory with that suffix
Glob(dir, ext) == SelectSeq(dir, LAMBDA name : EndsWith(Text(name), ext))

\* GUID.shouldPerformCheck
ShouldPerformCheck(filename) == Split(filename, "_")[1] \notin oldStyleFWModels

(***************************************************************************)
(* EFI.getVersion(f, position)                                             *)
(***************************************************************************)
\* how far a forward marker scan is followed
MaxPosition == 4700

\* position >= 4096 in place of position > 4096
ScansBackward_Inclusive(p) == p >= 4096

\* if position > 4096: the backward loop, else the forward loop
ScansBackward(p) == p > 4096

\* f.seek(position, 0) and the choice of the loop; a negative offset raises
GetVersionEnter ==
  /\ pc = "getVersion"
  /\ IF position < 0
       THEN pc' = "raised" /\ UNCHANGED fpos
       ELSE /\ fpos' = position
            /\ pc' = IF ScansBackward(position) THEN "gv_back" ELSE "gv_fwd"
  /\ UNCHANGED <<hostVars, loopVars, reportVars, callVars, f, mPosition, position,
                 filesize, biosID, count, boardIDs, trailingBytes>>

\* one test of 'while not f.read(8) == "$IBIOSI$"' and, when it fails, the
\* body position-=4; f.seek(position)
GetVersionBackward ==
  /\ pc = "gv_back"
  /\ LET data == Read(f, fpos, 8)
     IN  IF data = IBIOSI
           THEN pc' = "gv_found" /\ fpos' = fpos + 8 /\ UNCHANGED position
           ELSE /\ position' = position - 4
                /\ IF position - 4 < 0
                     THEN pc' = "raised" /\ fpos' = fpos + Len(data)
                     ELSE pc' = "gv_back" /\ fpos' = position - 4
  /\ UNCHANGED <<hostVars, loopVars, reportVars, callVars, f, mPosition,
                 filesize, biosID, count, boardIDs, trailingBytes>>

\* the same with position+=4; the loop has no exit but a match
GetVersionForward ==
  /\ pc = "gv_fwd"
  /\ position < MaxPosition
  /\ LET data == Read(f, fpos, 8)
     IN  IF data = IBIOSI
           THEN pc' = "gv_found" /\ fpos' = fpos + 8 /\ UNCHANGED position
           ELSE pc' = "gv_fwd" /\ position' = position + 4 /\ fpos' = position + 4
  /\ UNCHANGED <<hostVars, loopVars, reportVars, callVars, f, mPosition,
                 filesize, biosID, count, boardIDs, trailingBytes>>

\* return f.read(0x41).decode('utf-8')
GetVersionReturn ==
  /\ pc = "gv_found"
  /\ LET data == Read(f, fpos, 65)
     IN  /\ fpos' = fpos + Len(data)
         /\ IF DecodeFails(data)
              THEN pc' = "raised" /\ UNCHANGED biosID
              ELSE pc' = "gv_ret" /\ biosID' = Decode(data)
  /\ UNCHANGED <<hostVars, loopVars, reportVars, callVars, f, mPosition, position,
                 filesize, count, boardIDs, trailingBytes>>

(***************************************************************************)
(* GUID.search(f, filesize, filename)                                      *)
(***************************************************************************)
MP51 == <<"M", "P", "5", "1">>

\* 0x1200 tried before 0x98
FixedCandidates_Swapped ==
  << [off |-> 4608, uuid |-> UUID_C],
     [off |-> 152, uuid |-> UUID_B],
     [off |-> 4168, uuid |-> UUID_B] >>

\* the three fixed offsets and the UUID compared at each, in source order:
\* 0x98, 0x1200, 0x1048
FixedCandidates ==
  << [off |-> 152, uuid |-> UUID_B],
     [off |-> 4608, uuid |-> UUID_C],
     [off |-> 4168, uuid |-> UUID_B] >>

\* the candidates whose 16 bytes, read after f.seek(off, 0), match
CandidateHits(img) ==
  {i \in 1..Len(FixedCandidates) :
     Hexlify(Read(img, FixedCandidates[i].off, 16)) = FixedCandidates[i].uuid}

\* the function up to its first loop: the MP51 branch sets position = 0 and
\* does not seek; the other branch tries the fixed offsets in order, returns
\* the first that matches, and otherwise seeks to filesize-8
SearchEnter ==
  /\ pc = "search"
  /\ IF StartsWith(Text(f.name), MP51)
       THEN pc' = "search_fwd" /\ position' = 0 /\ UNCHANGED fpos
       ELSE LET hits == CandidateHits(f)
                last == FixedCandidates[Len(FixedCandidates)].off
            IN  IF hits # {}
                  THEN LET off == FixedCandidates[Min(hits)].off
                       IN  /\ pc' = "search_ret"
                           /\ position' = off
                           /\ fpos' = off + Len(Read(f, off, 16))
                  ELSE /\ position' = filesize - 8
                       /\ IF filesize - 8 < 0
                            THEN pc' = "raised" /\ fpos' = last + Len(Read(f, last, 16))
                            ELSE pc' = "search_bwd" /\ fpos' = filesize - 8
  /\ UNCHANGED <<hostVars, loopVars, reportVars, callVars, f, mPosition,
                 filesize, biosID, count, boardIDs, trailingBytes>>

\* one test of 'while not hexlify(f.read(16)) == <UUID A>' and its body:
\* if position < (filesize-8): position+=4; f.seek(position, 0)
SearchForward ==
  /\ pc = "search_fwd"
  /\ LET data == Read(f, fpos, 16)
     IN  IF Hexlify(data) = UUID_A
           THEN pc' = "search_ret" /\ fpos' = fpos + Len(data) /\ UNCHANGED position
           ELSE /\ pc' = "search_fwd"
                /\ IF position < filesize - 8
                     THEN position' = position + 4 /\ fpos' = position + 4
                     ELSE fpos' = fpos + Len(data) /\ UNCHANGED position
  /\ UNCHANGED <<hostVars, loopVars, reportVars, callVars, f, mPosition,
                 filesize, biosID, count, boardIDs, trailingBytes>>

\* one test of 'while not hexlify(f.read(16)) == <UUID B>' and its body:
\* if position > 8: position-=4; f.seek(position, 0)
SearchBackward ==
  /\ pc = "search_bwd"
  /\ LET data == Read(f, fpos, 16)
     IN  IF Hexlify(data) = UUID_B
           THEN pc' = "search_ret" /\ fpos' = fpos + Len(data) /\ UNCHANGED position
           ELSE /\ pc' = "search_bwd"
                /\ IF position > 8
                     THEN position' = position - 4 /\ fpos' = position - 4
                     ELSE fpos' = fpos + Len(data) /\ UNCHANGED position
  /\ UNCHANGED <<hostVars, loopVars, reportVars, callVars, f, mPosition,
                 filesize, biosID, count, boardIDs, trailingBytes>>

(***************************************************************************)
(* BoardID.getIDs(f, position, trailingBytes)                              *)
(***************************************************************************)
\* the two trailing bytes never skipped
SkipTrailing_Never(p, trailing) == p

\* if trailingBytes == True: position+=2
SkipTrailing(p, trailing) == IF trailing THEN p + 2 ELSE p

\* "Mac-%s" % binascii.hexlify(boardID).decode('utf-8').upper()
RenderBoardID(bytes) == "Mac-" \o Join(Upper(Hexlify(bytes)))

\* boardIDs = []; count = 15; position+=20; f.seek(position, 0)
GetIDsEnter ==
  /\ pc = "getIDs"
  /\ boardIDs' = <<>>
  /\ count' = 15
  /\ position' = position + 20
  /\ IF position + 20 < 0
       THEN pc' = "raised" /\ UNCHANGED fpos
       ELSE pc' = "ids_loop" /\ fpos' = position + 20
  /\ UNCHANGED <<hostVars, loopVars, reportVars, callVars, f, mPosition,
                 filesize, biosID, trailingBytes>>

\* one iteration of 'while count > 1', and the return when it was the last
GetIDsLoop ==
  /\ pc = "ids_loop"
  /\ count > 1
  /\ count' = count - 1
  /\ LET p == position + 8
         boardID == Read(f, p, 8)
     IN  /\ fpos' = p + Len(boardID)
         /\ IF boardID = UNUSED
              THEN pc' = "ids_ret" /\ position' = p /\ UNCHANGED boardIDs
              ELSE /\ boardIDs' = Append(boardIDs, RenderBoardID(boardID))
                   /\ position' = SkipTrailing(p, trailingBytes)
                   /\ pc' = IF count - 1 > 1 THEN "ids_loop" ELSE "ids_ret"
  /\ UNCHANGED <<hostVars, loopVars, reportVars, callVars, f, mPosition,
                 filesize, biosID, trailingBytes>>

(***************************************************************************)
(* Inputs.                                                                 *)
(***************************************************************************)
Image(name, size, markers, ver, recOK, patA, patB, patC, tblBase, tblStride, codes) ==
  [name |-> name, size |-> size, markers |-> markers, ver |-> ver, recOK |-> recOK,
   patA |-> patA, patB |-> patB, patC |-> patC, tblBase |-> tblBase,
   tblStride |-> tblStride, codes |-> codes]

\* the images of the EFIPayloads directory
MainImages ==
  { \* pattern B at 0x98, two board-ids and the unused slot, marker at 0xb0 + 4*56
    Image("IM142_0118_B00.scap", 4700, {400}, "IM142.88Z.0118.B00.1708080133", TRUE,
          {}, {152}, {}, 180, 8, <<1, 2, 0>>),
    \* pattern C at 0x1200, records 10 bytes apart
    Image("MBP143_0167_B00.scap", 4800, {176}, "MBP143.88Z.0167.B00.1801010000", TRUE,
          {}, {}, {4608}, 4636, 10, <<3, 4, 0>>),
    \* pattern B only behind the version record
    Image("MM71_0220_B00.scap", 300, {176}, "MM71.88Z.0220.B00.1708080133", TRUE,
          {}, {264}, {}, 292, 8, <<>>),
    \* an old-style model: no table is read
    Image("MP51_007F_03B.scap", 400, {176}, "MP51.88Z.007F.B03.1706010000", TRUE,
          {}, {}, {}, 0, 8, <<>>),
    \* MP51 without the underscore: pattern A right behind the version record
    Image("MP51.scap", 400, {176}, "MP51.88Z.007F.B03.1706010000", TRUE,
          {249}, {}, {}, 277, 8, <<>>),
    \* a .fd image: marker below filesize-44, pattern B at 0x1048
    Image("IM171_0105_B20.fd", 4400, {4300}, "IM171.88Z.0105.B20.1708080133", TRUE,
          {}, {4168}, {}, 4196, 8, <<1, 0>>),
    \* a .fd image without the marker
    Image("MBP133_0233_B00.fd", 4200, {}, "", TRUE, {}, {}, {}, 0, 8, <<>>),
    \* a .scap image without the marker
    Image("IM183_0151_B00.scap", 300, {}, "", TRUE, {}, {}, {}, 0, 8, <<>>),
    \* a .fd image shorter than 44 bytes
    Image("MM71.fd", 40, {}, "", TRUE, {}, {}, {}, 0, 8, <<>>) }

\* io.open(firmwareFile): the content of the file of that name
Open(name) == CHOOSE img \in MainImages : img.name = name

\* how many files the directory holds at most
MaxFiles == 2

\* the directory listings: the names of distinct files, in any order
Listings ==
  LET names == {img.name : img \in MainImages}
  IN  UNION { {s \in [1..n -> names] : \A i, j \in 1..n : i # j => s[i] # s[j]}
              : n \in 0..MaxFiles }

(***************************************************************************)
(* main: the loop over the file types and the firmware files.              *)
(***************************************************************************)
firmwareFiles == Glob(files, targetFileTypes[fileType])

\* the body of 'for boardID in boardIDs' (lines 590-598) and of the else
\* branch (lines 601-607) for one row; r holds linePrinted,
\* warnAboutEFIVersion, the rows printed and whether an exception escaped
\* the version compared for every row, whether or not it is the host's
ReportRow_AnyBoard(r, boardID, modelID) ==
  IF r.raised THEN r
  ELSE IF ShouldWarnRaises(platformSystem, Text(rawVersion), biosID)
    THEN [r EXCEPT !.raised = TRUE,
                   !.rows = Append(@, <<boardID, modelID, Join(biosID)>>)]
    ELSE [line |-> IF boardID = myBoardID THEN TRUE ELSE FALSE,
          warn |-> r.warn \/ ShouldWarnAboutUpdate(platformSystem, Text(rawVersion), biosID),
          rows |-> Append(r.rows, <<boardID, modelID, Join(biosID)>>),
          raised |-> FALSE]

ReportRow(r, boardID, modelID) ==
  IF r.raised THEN r
  ELSE IF boardID = myBoardID
    THEN IF ShouldWarnRaises(platformSystem, Text(rawVersion), biosID)
           THEN [r EXCEPT !.line = TRUE, !.raised = TRUE,
                          !.rows = Append(@, <<boardID, modelID, Join(biosID)>>)]
           ELSE [line |-> TRUE,
                 warn |-> r.warn \/ ShouldWarnAboutUpdate(platformSystem, Text(rawVersion), biosID),
                 rows |-> Append(r.rows, <<boardID, modelID, Join(biosID)>>),
                 raised |-> FALSE]
    ELSE [r EXCEPT !.line = FALSE, !.rows = Append(@, <<boardID, modelID, Join(biosID)>>)]

RECURSIVE ReportRows(_, _)
ReportRows(r, ids) ==
  IF ids = <<>> THEN r
  ELSE ReportRows(ReportRow(r, Head(ids), GetByBoardID(Head(ids))), Tail(ids))

ReportStart ==
  [line |-> linePrinted, warn |-> warnAboutEFIVersion, rows |-> printed, raised |-> FALSE]

\* with io.open(firmwareFile, 'rb') as f ... up to the call of EFI.getVersion
\* (line 584, or line 397 through EFI.getData)
MainOpenFile ==
  /\ pc = "for_file"
  /\ fidx < Len(firmwareFiles)
  /\ LET img == Open(firmwareFiles[fidx + 1])
         start == IF ShouldPerformCheck(Text(img.name)) /\ fileType = 2
                    THEN img.size - 44
                    ELSE 176
     IN  /\ f' = img
         /\ fpos' = 0
         /\ mPosition' = start
         /\ position' = start
  /\ fidx' = fidx + 1
  /\ pc' = "getVersion"
  /\ UNCHANGED <<hostVars, reportVars, callVars, fileType, filesize, biosID,
                 count, boardIDs, trailingBytes>>

\* the inner loop is exhausted: on to the next file type
MainNextType ==
  /\ pc = "for_file"
  /\ fidx = Len(firmwareFiles)
  /\ fileType < Len(targetFileTypes)
  /\ fileType' = fileType + 1
  /\ fidx' = 0
  /\ UNCHANGED <<pc, hostVars, reportVars, callVars, f, fpos, mPosition, position, filesize,
                 biosID, count, boardIDs, trailingBytes>>

\* both loops are exhausted: the closing lines are printed
MainFinish ==
  /\ pc = "for_file"
  /\ fidx = Len(firmwareFiles)
  /\ fileType = Len(targetFileTypes)
  /\ pc' = "done"
  /\ UNCHANGED <<hostVars, loopVars, reportVars, callVars, f, fpos, mPosition, position,
                 filesize, biosID, count, boardIDs, trailingBytes>>

\* position = GUID.search(f, position, filename): main passes its position
\* where the function expects the file size
MainCallSearch ==
  /\ pc = "gv_ret"
  /\ ShouldPerformCheck(Text(f.name))
  /\ filesize' = mPosition
  /\ pc' = "search"
  /\ UNCHANGED <<hostVars, loopVars, reportVars, callVars, f, fpos, mPosition,
                 position, biosID, count, boardIDs, trailingBytes>>

\* the rest of EFI.getData and lines 601-607
MainGetData ==
  /\ pc = "gv_ret"
  /\ ~ShouldPerformCheck(Text(f.name))
  /\ LET model == SelectSeq(Split(biosID, ".")[1], IsAlnum)
         modelID == ModelGetID(model)
         boardID == GetByModelID(modelID)
         r == ReportRow(ReportStart, boardID, modelID)
     IN  /\ linePrinted' = r.line
         /\ warnAboutEFIVersion' = r.warn
         /\ printed' = r.rows
         /\ pc' = IF r.raised THEN "raised" ELSE "for_file"
  /\ UNCHANGED <<hostVars, loopVars, callVars, f, fpos, mPosition, position,
                 filesize, biosID, count, boardIDs, trailingBytes>>

\* trailingBytes = (position == 0x1200); BoardID.getIDs(f, position, trailingBytes)
MainCallGetIDs ==
  /\ pc = "search_ret"
  /\ mPosition' = position
  /\ trailingBytes' = (position = 4608)
  /\ pc' = "getIDs"
  /\ UNCHANGED <<hostVars, loopVars, reportVars, callVars, f, fpos, position,
                 filesize, biosID, count, boardIDs>>

\* for boardID in boardIDs: ...
MainReport ==
  /\ pc = "ids_ret"
  /\ LET r == ReportRows(ReportStart, boardIDs)
     IN  /\ linePrinted' = r.line
         /\ warnAboutEFIVersion' = r.warn
         /\ printed' = r.rows
         /\ pc' = IF r.raised THEN "raised" ELSE "for_file"
  /\ UNCHANGED <<hostVars, loopVars, callVars, f, fpos, mPosition, position,
                 filesize, biosID, count, boardIDs, trailingBytes>>

(***************************************************************************)
(* Functions called on their own: the argument is arg, the results are     *)
(* appended to ret.                                                        *)
(***************************************************************************)
frameVars == <<f, fpos, mPosition, position, filesize, count, boardIDs, trailingBytes>>

CallGetID ==
  /\ pc = "call_getID"
  /\ ret' = <<ModelGetID(arg)>>
  /\ pc' = "call_ret"
  /\ UNCHANGED <<hostVars, loopVars, reportVars, frameVars, biosID, arg>>

CallGetByBoardID ==
  /\ pc = "call_byBoard"
  /\ ret' = <<GetByBoardID(arg)>>
  /\ pc' = "call_byModel"
  /\ UNCHANGED <<hostVars, loopVars, reportVars, frameVars, biosID, arg>>

\* called with arg, or with the model name the first lookup returned
CallGetByModelID ==
  /\ pc = "call_byModel"
  /\ ret' = Append(ret, GetByModelID(IF ret = <<>> THEN arg ELSE ret[1]))
  /\ pc' = "call_ret"
  /\ UNCHANGED <<hostVars, loopVars, reportVars, frameVars, biosID, arg>>

CallShouldWarn ==
  /\ pc = "call_warn"
  /\ IF ShouldWarnRaises(platformSystem, Text(rawVersion), biosID)
       THEN pc' = "raised" /\ UNCHANGED ret
       ELSE /\ pc' = "call_ret"
            /\ ret' = <<ShouldWarnAboutUpdate(platformSystem, Text(rawVersion), biosID)>>
  /\ UNCHANGED <<hostVars, loopVars, reportVars, frameVars, biosID, arg>>

HostBoardID == "Mac-27ADBB7B4CEE8E61"

\* lines 561-567: the host's board-id and EFI version on Darwin, the
\* placeholders elsewhere
HostInit ==
  \/ /\ platformSystem = "Darwin"
     /\ myBoardID = HostBoardID
     /\ rawVersion \in {"IM142.88Z.0118.B00.1706010000", "IM142.88Z.0118.B00.1801010000"}
  \/ /\ platformSystem = "Darwin"
     /\ myBoardID = "Mac-F221DCC8"
     /\ rawVersion = "MP51.88Z.007F.B03.1005010000"
  \/ /\ platformSystem = "Linux"
     /\ myBoardID = "Mac-XXXXXXXXXXXXXXXX"
     /\ rawVersion = "Raw EFI Version string: UNSPEC.00Z.0000.B00.0000000000"

NoFrame ==
  /\ f = NoFile
  /\ fpos = 0
  /\ mPosition = 176
  /\ position = 0
  /\ filesize = 0
  /\ biosID = <<>>
  /\ count = 0
  /\ boardIDs = <<>>
  /\ trailingBytes = FALSE

NoHost ==
  /\ platformSystem = "Linux"
  /\ myBoardID = "Mac-XXXXXXXXXXXXXXXX"
  /\ rawVersion = "Raw EFI Version string: UNSPEC.00Z.0000.B00.0000000000"
  /\ files = <<>>

NoLoop ==
  /\ fileType = 1
  /\ fidx = 0
  /\ linePrinted = TRUE
  /\ warnAboutEFIVersion = FALSE
  /\ printed = <<>>

NoCall == arg = <<>> /\ ret = <<>>

\* main, from line 558 on
Init ==
  /\ pc = "for_file"
  /\ HostInit
  /\ files \in Listings
  /\ NoLoop
  /\ NoFrame
  /\ NoCall

Next ==
  \/ MainOpenFile
  \/ MainNextType
  \/ MainFinish
  \/ GetVersionEnter
  \/ GetVersionBackward
  \/ GetVersionForward
  \/ GetVersionReturn
  \/ MainCallSearch
  \/ MainGetData
  \/ SearchEnter
  \/ SearchForward
  \/ SearchBackward
  \/ MainCallGetIDs
  \/ GetIDsEnter
  \/ GetIDsLoop
  \/ MainReport

Spec == Init /\ [][Next]_vars

(***************************************************************************)
(* Properties of main (specification Spec).                                *)
(***************************************************************************)
\* C1: a single bad image never aborts the scan of the remaining set: while
\* an image that holds no "$IBIOSI$" marker is being processed, no exception
\* escapes main's per-image loop.
C1_BadImageNeverAborts == pc = "raised" => f.markers # {}

IsMP51Scap(name) ==
  /\ StartsWith(name, <<"M", "P", "5", "1", "_">>)
  /\ EndsWith(name, GLOB_SCAP_EXTENSION)

\* C3: an image named MP51_<anything>.scap is routed through GUID.search and
\* there through the forward scan for pattern A: once its version is read,
\* main's next step calls GUID.search, and GUID.search enters the forward
\* loop, never the fixed-offset candidates.
C3_MP51RoutesForward ==
  [][IsMP51Scap(Text(f.name)) =>
       /\ pc = "gv_ret" => pc' = "search"
       /\ pc = "search" => pc' = "search_fwd"]_vars

\* C10: whenever GUID.search returns in main's per-image flow, the 16 bytes
\* of the image at the returned offset are the pattern searched: pattern A
\* for a name starting with MP51, pattern B or C otherwise.
C10_ReturnedOffsetMatches ==
  pc = "search_ret" =>
    IF StartsWith(Text(f.name), MP51)
      THEN Hexlify(Read(f, position, 16)) = UUID_A
      ELSE Hexlify(Read(f, position, 16)) \in {UUID_B, UUID_C}

(***************************************************************************)
(* Model.getID called on its own (specification SpecGetID).                *)
(***************************************************************************)
TokenPrefixes ==
  { <<"I", "M", "P">>, <<"I", "M">>, <<"M", "B", "P">>, <<"M", "B", "A">>, <<"M", "B">>,
    <<"M", "M">>, <<"M", "P">>, <<"Z", "Z">>, <<>>, <<"M">>, <<"P", "M">>,
    <<"i", "m">>, <<"M", "B", "X">> }

TokenDigits ==
  { <<>>, <<"1">>, <<"1", "1">>, <<"1", "0", "1">>, <<"1", "4", "2">>, <<"9", "9">>,
    <<"5", "A", "1">> }

Tokens == {p \o d : p \in TokenPrefixes, d \in TokenDigits}

InitGetID ==
  /\ pc = "call_getID"
  /\ arg \in Tokens
  /\ ret = <<>>
  /\ NoHost
  /\ NoLoop
  /\ NoFrame

NextGetID == CallGetID

SpecGetID == InitGetID /\ [][NextGetID]_vars

\* the family the claim names for a token: the longer prefix decides
ClaimedFamily(id) ==
  IF StartsWith(id, <<"I", "M", "P">>) THEN "iMacPro"
  ELSE IF StartsWith(id, <<"I", "M">>) THEN "iMac"
  ELSE IF StartsWith(id, <<"M", "B", "P">>) THEN "MacBookPro"
  ELSE IF StartsWith(id, <<"M", "B", "A">>) THEN "MacBookAir"
  ELSE IF StartsWith(id, <<"M", "B">>) THEN "MacBook"
  ELSE IF StartsWith(id, <<"M", "M">>) THEN "Macmini"
  ELSE IF StartsWith(id, <<"M", "P">>) THEN "MacPro"
  ELSE "Unknown"

\* C4: Model.getID checks longer prefixes before shorter overlapping ones:
\* the result is '<family><major>,<minor>' for the family of the longest
\* matching prefix (IMP before IM, MBP and MBA before MB), <major> all digits
\* of the token but the last and <minor> the last digit; 'Unknown' when no
\* prefix matches.
C4_LongerPrefixFirst ==
  pc = "call_ret" =>
    LET digits == SelectSeq(arg, IsDigit)
        major == [i \in 1..(Len(digits) - 1) |-> digits[i]]
        minor == IF digits = <<>> THEN <<>> ELSE <<digits[Len(digits)]>>
    IN  ret[1] = IF ClaimedFamily(arg) = "Unknown"
                   THEN "Unknown"
                   ELSE ClaimedFamily(arg) \o Join(major) \o "," \o Join(minor)

(***************************************************************************)
(* The two table lookups called on their own (specification SpecRegistry): *)
(* Model.getByBoardID followed by BoardID.getByModelID on its result, or   *)
(* BoardID.getByModelID alone.                                             *)
(***************************************************************************)
TableBoardIDs == {boardIDModelIDs[i][1] : i \in 1..Len(boardIDModelIDs)}

TableModelIDs == {boardIDModelIDs[i][2] : i \in 1..Len(boardIDModelIDs)}

InitRegistry ==
  /\ \/ pc = "call_byBoard" /\ arg \in TableBoardIDs \cup {"Mac-0000000000000000", "Unknown"}
     \/ pc = "call_byModel" /\ arg \in TableModelIDs \cup {"MacBook1,1", "Mac-F22C8AC8"}
  /\ ret = <<>>
  /\ NoHost
  /\ NoLoop
  /\ NoFrame

NextRegistry == CallGetByBoardID \/ CallGetByModelID

SpecRegistry == InitRegistry /\ [][NextRegistry]_vars

\* the first row of the table with value v in column col
FirstRow(col, v) == Min({i \in 1..Len(boardIDModelIDs) : boardIDModelIDs[i][col] = v})

UniqueModel(m) == Cardinality({i \in 1..Len(boardIDModelIDs) : boardIDModelIDs[i][2] = m}) = 1

\* C9: for every board id of boardIDModelIDs whose model name occurs once in
\* the table, BoardID.getByModelID(Model.getByBoardID(id)) = id; each lookup
\* returns the other column of the first matching row, and 'Unknown' when no
\* row matches.
C9_RoundTrip ==
  pc = "call_ret" =>
    IF Len(ret) = 2
      THEN /\ arg \in TableBoardIDs
                => ret[1] = boardIDModelIDs[FirstRow(1, arg)][2]
           /\ arg \notin TableBoardIDs => ret[1] = "Unknown"
           /\ ret[2] = boardIDModelIDs[FirstRow(2, ret[1])][1]
           /\ (arg \in TableBoardIDs /\ UniqueModel(ret[1])) => ret[2] = arg
      ELSE /\ arg \in TableModelIDs => ret[1] = boardIDModelIDs[FirstRow(2, arg)][1]
           /\ arg \notin TableModelIDs => ret[1] = "Unknown"

\* a board id with a unique model name has made the round trip
C9_Witness ==
  /\ pc = "call_ret"
  /\ Len(ret) = 2
  /\ arg = "Mac-7BA5B2D9E42DDD94"
  /\ ret = <<"iMacPro1,1", "Mac-7BA5B2D9E42DDD94">>

(***************************************************************************)
(* EFI.shouldWarnAboutUpdate called on its own (specification SpecAdvisor).*)
(* arg holds the date tokens the two versions were built from.             *)
(***************************************************************************)
AdvisorDates ==
  << 
     [tok |-> <<"1", "7", "0", "6", "0", "1", "0", "0", "0", "0">>,
      ver |-> "IM142.88Z.0118.B00.1706010000"],
     [tok |-> <<"1", "7", "0", "8", "0", "8", "0", "1", "3", "3">>,
      ver |-> "IM142.88Z.0118.B00.1708080133"],
     [tok |-> <<"1", "7", "0", "8", "0", "8", "0", "1", "3", "4">>,
      ver |-> "IM142.88Z.0118.B00.1708080134"],
     [tok |-> <<"1", "8", "0", "1", "0", "1", "0", "0", "0", "0">>,
      ver |-> "IM142.88Z.0118.B00.1801010000"],
     [tok |-> <<"0", "9", "1", "2", "3", "1", "2", "3", "5", "9">>,
      ver |-> "IM142.88Z.0118.B00.0912312359"],
     [tok |-> <<"9", "9", "0", "1", "0", "1", "0", "0", "0", "0">>,
      ver |-> "IM142.88Z.0118.B00.9901010000"],
     [tok |-> <<"1", "7", "0", "8", "0", "8", "0", "0", "0", "0">>,
      ver |-> "IM142.88Z.0118.B00.1708080000"],
     [tok |-> <<"1", "7", "1", "2", "0", "1", "0", "0", "0", "0">>,
      ver |-> "IM142.88Z.0118.B00.1712010000"],
     [tok |-> <<"1", "7", "0", "8", "0", "8", "0", "1", "3">>,
      ver |-> "IM142.88Z.0118.B00.170808013"],
     [tok |-> <<"2">>,
      ver |-> "IM142.88Z.0118.B00.2"]
  >>

ShortVersion == "IM142.88Z.0118"

InitAdvisor ==
  /\ pc = "call_warn"
  /\ platformSystem \in {"Darwin", "Linux", "Windows"}
  /\ myBoardID = HostBoardID
  /\ files = <<>>
  /\ \E i, j \in 0..Len(AdvisorDates) :
       /\ rawVersion = IF i = 0 THEN ShortVersion ELSE AdvisorDates[i].ver
       /\ biosID = Decode(RecordBytes([ver |-> IF j = 0 THEN ShortVersion ELSE AdvisorDates[j].ver,
                                       recOK |-> TRUE]))
       /\ arg = << IF i = 0 THEN <<>> ELSE AdvisorDates[i].tok,
                   IF j = 0 THEN <<>> ELSE AdvisorDates[j].tok >>
  /\ ret = <<>>
  /\ NoLoop
  /\ f = NoFile
  /\ fpos = 0
  /\ mPosition = 176
  /\ position = 0
  /\ filesize = 0
  /\ count = 0
  /\ boardIDs = <<>>
  /\ trailingBytes = FALSE

NextAdvisor == CallShouldWarn

SpecAdvisor == InitAdvisor /\ [][NextAdvisor]_vars

\* a before b in the order of fixed-width strings: at the first position
\* where they differ, a has the smaller character (a proper prefix is less)
LexLess(a, b) ==
  \E k \in 0..Len(a) :
    /\ k <= Len(b)
    /\ \A i \in 1..k : a[i] = b[i]
    /\ \/ k = Len(a) /\ k < Len(b)
       \/ k < Len(a) /\ k < Len(b) /\ Ord(a[k + 1]) < Ord(b[k + 1])

IsDate(t) == Len(t) = 10 /\ \A i \in 1..10 : IsDigit(t[i])

\* the number written by the digits t[from..to]
RECURSIVE DigitsValue(_, _, _)
DigitsValue(t, from, to) ==
  IF to < from THEN 0 ELSE 10 * DigitsValue(t, from, to - 1) + (Ord(t[to]) - 48)

\* a earlier than b as YYMMDDHHMM: the numeric order of the 10-digit numbers,
\* compared in two halves of five digits
ChronLess(a, b) ==
  \/ DigitsValue(a, 1, 5) < DigitsValue(b, 1, 5)
  \/ DigitsValue(a, 1, 5) = DigitsValue(b, 1, 5) /\ DigitsValue(a, 6, 10) < DigitsValue(b, 6, 10)

\* C8 as stated: for two versions that have a 5th field, the result is true
\* iff the reference's date token is strictly less than the candidate's.
C8_TrueIffDateLess ==
  (pc = "call_ret" /\ arg[1] # <<>> /\ arg[2] # <<>>)
    => (ret[1] <=> LexLess(arg[1], arg[2]))

\* C8 as amended: on Darwin the result is true iff the reference's date token
\* is strictly less than the candidate's (NULs removed) as a string, which for
\* two 10-digit tokens is the numeric order; on every other platform the
\* result is false.
C8_TrueIffDarwinAndDateLess ==
  pc = "call_ret" =>
    /\ ret[1] <=> (platformSystem = "Darwin" /\ LexLess(arg[1], arg[2]))
    /\ (platformSystem = "Darwin" /\ IsDate(arg[1]) /\ IsDate(arg[2]))
         => (ret[1] <=> ChronLess(arg[1], arg[2]))
    /\ arg[1] = arg[2] => ~ret[1]

\* on Darwin, reference 1706010000 against candidate 1708080133 gave true
C8_Witness ==
  /\ pc = "call_ret"
  /\ platformSystem = "Darwin"
  /\ rawVersion = "IM142.88Z.0118.B00.1706010000"
  /\ arg[2] = <<"1", "7", "0", "8", "0", "8", "0", "1", "3", "3">>
  /\ ret = <<TRUE>>

(***************************************************************************)
(* EFI.getVersion called on its own (specification SpecGetVersion): arg is *)
(* the start offset.                                                       *)
(***************************************************************************)
MarkerOffsets == {16, 176, 3996, 4096, 4180, 4270, 4356}

MarkerSets == {ms \in SUBSET MarkerOffsets : Cardinality(ms) <= 2}

VersionImage(ms, size, ok) ==
  Image("", size, ms, "IM142.88Z.0118.B00.1708080133", ok, {}, {}, {}, 0, 8, <<>>)

\* whole images, images that end inside the record of the marker at 4356,
\* and images whose record is not text
VersionImages ==
  {VersionImage(ms, 4500, TRUE) : ms \in MarkerSets}
    \cup {VersionImage(ms, 4400, TRUE) : ms \in {x \in MarkerSets : 4356 \in x}}
    \cup {VersionImage({m}, 4500, FALSE) : m \in MarkerOffsets}

VersionStarts == {0, 176, 4092, 4096, 4100, 4356}

InitGetVersion ==
  /\ pc = "getVersion"
  /\ f \in VersionImages
  /\ position \in VersionStarts
  /\ arg = position
  /\ ret = <<>>
  /\ fpos = 0
  /\ mPosition = 176
  /\ filesize = 0
  /\ biosID = <<>>
  /\ count = 0
  /\ boardIDs = <<>>
  /\ trailingBytes = FALSE
  /\ NoHost
  /\ NoLoop

NextGetVersion ==
  \/ GetVersionEnter
  \/ GetVersionBackward
  \/ GetVersionForward
  \/ GetVersionReturn

SpecGetVersion == InitGetVersion /\ [][NextGetVersion]_vars

\* the markers of the image in the scan direction from o: at or below o
\* when o > 4096, at or above o otherwise
MarkersAhead(img, o) ==
  IF o > 4096 THEN {m \in img.markers : m <= o} ELSE {m \in img.markers : m >= o}

NearestMarker(img, o) ==
  IF o > 4096 THEN Max(MarkersAhead(img, o)) ELSE Min(MarkersAhead(img, o))

\* the nearest marker in the scan direction lies a multiple of 4 from o
NearestAligned(img, o) ==
  /\ MarkersAhead(img, o) # {}
  /\ IF o > 4096
       THEN (o - NearestMarker(img, o)) % 4 = 0
       ELSE (NearestMarker(img, o) - o) % 4 = 0

\* C5: EFI.getVersion scans in 4-byte steps from the start offset o, backward
\* exactly when o > 4096 and forward when o <= 4096; when the nearest marker
\* in the scan direction lies at o - 4k resp. o + 4k, the scan never passes
\* it, stops at it, and returns the decoded 65 bytes (fewer at the end of the
\* file) that follow it: three spaces and the version text, a NUL after each
\* character; the only exception is the decode of a record that is not text.
C5_StopsAtNearestMarker ==
  NearestAligned(f, arg) =>
    LET m == NearestMarker(f, arg)
    IN  /\ pc = "gv_back"
             => arg > 4096 /\ position >= m /\ (arg - position) % 4 = 0
        /\ pc = "gv_fwd"
             => arg <= 4096 /\ position <= m /\ (position - arg) % 4 = 0
        /\ pc \in {"gv_found", "gv_ret", "raised"} => position = m
        /\ pc = "gv_ret"
             => /\ biosID = Decode(Read(f, m + 8, 65))
                /\ (f.size >= m + 73)
                     => Remove(biosID, "NUL") = <<" ", " ", " ">> \o Text(f.ver)
        /\ pc = "raised" => ~f.recOK

\* started at 4100, the scan went backward to the marker at 4096 although
\* another marker lies ahead at 4180
C5_Witness ==
  /\ pc = "gv_ret"
  /\ arg = 4100
  /\ f.markers = {4096, 4180}
  /\ position = 4096
  /\ Len(biosID) = 65

(***************************************************************************)
(* GUID.search called on its own (specification SpecSearch): any file      *)
(* pointer (arg), any filesize argument.                                   *)
(***************************************************************************)
SearchImages ==
  {Image("IM142_0118_B00.scap", 4700, {}, "", TRUE, {}, b, c, 0, 8, <<>>) :
     b \in SUBSET {152, 4168}, c \in SUBSET {4608}}
    \cup {Image("IM142_0118_B00.scap", size, {}, "", TRUE, {}, {b}, {}, 0, 8, <<>>) :
            size \in {300, 4700}, b \in {40, 264}}
    \cup {Image("IM142_0118_B00.scap", 300, {}, "", TRUE, {}, {}, {}, 0, 8, <<>>)}
    \cup {Image(name, 400, {}, "", TRUE, a, {}, {}, 0, 8, <<>>) :
            name \in {"MP51.scap", "MP51_007F_03B.scap"},
            a \in {{}, {16}, {18}, {249}, {380}}}

InitSearch ==
  /\ pc = "search"
  /\ f \in SearchImages
  /\ filesize \in {f.size, f.size - 44, 176, 4}
  /\ fpos \in {0, 249}
  /\ arg = fpos
  /\ ret = <<>>
  /\ position = 0
  /\ mPosition = filesize
  /\ biosID = <<>>
  /\ count = 0
  /\ boardIDs = <<>>
  /\ trailingBytes = FALSE
  /\ NoHost
  /\ NoLoop

NextSearch ==
  \/ SearchEnter
  \/ SearchForward
  \/ SearchBackward

SpecSearch == InitSearch /\ [][NextSearch]_vars

\* C2: GUID.search terminates: when the pattern is not found, the forward
\* scan stops once its offset has reached filesize-8 and the backward scan
\* once its offset has reached 8, i.e. a test of the loop made with the
\* offset at its bound is the last one.
C2_ScanStopsAtBound ==
  [][(\/ pc = "search_fwd" /\ position >= filesize - 8
      \/ pc = "search_bwd" /\ position <= 8)
       => pc' \notin {"search_fwd", "search_bwd"}]_vars

\* C7: for a file name that does not start with MP51, the fixed candidates
\* are tried in the order 0x98 (pattern B), 0x1200 (pattern C), 0x1048
\* (pattern B) and the first that matches is returned, wherever the file
\* pointer stood before the call; the backward scan is entered only when
\* none of the three matches.
C7_FixedCandidatesInOrder ==
  (~StartsWith(Text(f.name), MP51) /\ pc \in {"search_ret", "search_bwd", "raised"}) =>
    LET b98 == 152 \in f.patB /\ f.size >= 168
        c1200 == 4608 \in f.patC /\ f.size >= 4624
        b1048 == 4168 \in f.patB /\ f.size >= 4184
    IN  /\ b98 => pc = "search_ret" /\ position = 152
        /\ (~b98 /\ c1200) => pc = "search_ret" /\ position = 4608
        /\ (~b98 /\ ~c1200 /\ b1048) => pc = "search_ret" /\ position = 4168
        /\ pc \in {"search_bwd", "raised"} => ~b98 /\ ~c1200 /\ ~b1048

\* all three candidates hold their pattern, the file pointer stood at 249,
\* and 0x98 was returned
C7_Witness ==
  /\ pc = "search_ret"
  /\ arg = 249
  /\ f.patB = {152, 4168}
  /\ f.patC = {4608}
  /\ position = 152

(***************************************************************************)
(* BoardID.getIDs called on its own (specification SpecGetIDs): arg is the *)
(* anchor.                                                                 *)
(***************************************************************************)
CodeLists ==
  { <<0>>, <<1, 2, 3, 4, 5, 0>>, <<1, 0, 2>>, <<1, 2>>,
    [i \in 1..14 |-> i], [i \in 1..16 |-> i] }

TableImages ==
  {Image("", size, {}, "", TRUE, {}, {}, {}, a + 28, stride, codes) :
     a \in {152, 4608}, size \in {5000, 4666, 210},
     stride \in {8, 10}, codes \in CodeLists}

InitGetIDs ==
  /\ pc = "getIDs"
  /\ f \in TableImages
  /\ position = f.tblBase - 28
  /\ arg = position
  /\ trailingBytes \in BOOLEAN
  /\ ret = <<>>
  /\ fpos = 0
  /\ mPosition = position
  /\ filesize = 0
  /\ biosID = <<>>
  /\ count = 0
  /\ boardIDs = <<>>
  /\ NoHost
  /\ NoLoop

NextGetIDs ==
  \/ GetIDsEnter
  \/ GetIDsLoop

SpecGetIDs == InitGetIDs /\ [][NextGetIDs]_vars

\* the content of slot i for anchor a: 8 bytes at a + 28 + s*i
SlotBytes(img, a, s, i) == Read(img, a + 28 + s * i, 8)

\* C6: BoardID.getIDs returns the codes read at a+28+s*i, i = 0,1,...
\* (s = 8, or 10 with the padding flag) in file order, up to but excluding
\* the first slot equal to eight 0xFF bytes and never more than 14: five
\* codes followed by the unused slot give those five, fourteen codes and no
\* unused slot give all fourteen, and no identifier is the all-FF value.
C6_TableWalk ==
  pc = "ids_ret" =>
    LET s == IF trailingBytes THEN 10 ELSE 8
        unused == {i \in 0..13 : SlotBytes(f, arg, s, i) = UNUSED}
        n == IF unused = {} THEN 14 ELSE Min(unused)
        whole == f.tblStride = s /\ f.size = 5000
    IN  /\ Len(boardIDs) = n
        /\ \A i \in 1..n : boardIDs[i] = RenderBoardID(SlotBytes(f, arg, s, i - 1))
        /\ \A i \in 1..Len(boardIDs) : boardIDs[i] # "Mac-FFFFFFFFFFFFFFFF"
        /\ (whole /\ f.codes = <<1, 2, 3, 4, 5, 0>>)
             => /\ Len(boardIDs) = 5
                /\ boardIDs[1] = "Mac-27ADBB7B4CEE8E61"
                /\ boardIDs[2] = "Mac-81E3E92DD6088272"
                /\ boardIDs[5] = "Mac-5152535455565758"
        /\ (whole /\ Len(f.codes) >= 14 /\ \A i \in 1..14 : f.codes[i] # 0)
             => Len(boardIDs) = 14 /\ boardIDs[14] = "Mac-E1E2E3E4E5E6E7E8"

\* a table of five codes and the unused slot, records 10 bytes apart, walked
\* with the padding flag
C6_Witness ==
  /\ pc = "ids_ret"
  /\ trailingBytes
  /\ f.tblStride = 10
  /\ f.size = 5000
  /\ f.codes = <<1, 2, 3, 4, 5, 0>>
  /\ Len(boardIDs) = 5
  /\ boardIDs[2] = "Mac-81E3E92DD6088272"

\* C11: every identifier returned by BoardID.getIDs is rendered from exactly
\* 8 bytes of the image, i.e. is "Mac-" followed by exactly 16 uppercase
\* hexadecimal characters (20 characters in all), for every image length
\* and anchor, also when the 14-slot window reaches or passes the end of the
\* image.
C11_SixteenHexDigits ==
  pc = "ids_ret" => \A i \in 1..Len(boardIDs) : Len(boardIDs[i]) = 20

(***************************************************************************)
(* The warning flag of main, over the whole run (specification Spec).      *)
(***************************************************************************)
\* the date token of a version text: its 5th dot-separated field
HasDate(ver) == Len(Split(Text(ver), ".")) >= 5

DateOf(ver) == Split(Text(ver), ".")[5]

\* the step printed a row for the host's board id
YieldsHostID ==
  \E k \in (Len(printed) + 1)..Len(printed') : printed'[k][1] = myBoardID

\* the date token of the image in hand is greater than the reference's
ImageIsNewer ==
  /\ HasDate(rawVersion)
  /\ HasDate(f.ver)
  /\ LexLess(DateOf(rawVersion), DateOf(f.ver))
  /\ (IsDate(DateOf(rawVersion)) /\ IsDate(DateOf(f.ver)))
       => ChronLess(DateOf(rawVersion), DateOf(f.ver))

\* C12: over any sequence of processed images the flag warnAboutEFIVersion
\* is true at the end of the run iff the platform is Darwin and at least one
\* processed image yielded an identifier equal to the host's board id while
\* its date token was greater than the reference's: the flag starts false,
\* each step sets it exactly when it was set already or the image in hand is
\* such an image, so an image without the host's board id never changes it
\* and no later image clears it.
C12_WarnFlag ==
  /\ [](pc = "for_file" /\ fileType = 1 /\ fidx = 0 => ~warnAboutEFIVersion)
  /\ [][warnAboutEFIVersion' <=>
          \/ warnAboutEFIVersion
          \/ platformSystem = "Darwin" /\ YieldsHostID /\ ImageIsNewer]_vars
  /\ [](pc = "done" =>
          /\ warnAboutEFIVersion
               => /\ platformSystem = "Darwin"
                  /\ \E k \in 1..Len(printed) : printed[k][1] = myBoardID
          /\ (myBoardID = HostBoardID /\ rawVersion = "IM142.88Z.0118.B00.1706010000"
                /\ \E i \in 1..Len(files) : files[i] = "IM142_0118_B00.scap")
               => warnAboutEFIVersion
          /\ rawVersion = "IM142.88Z.0118.B00.1801010000" => ~warnAboutEFIVersion
          /\ (myBoardID = "Mac-F221DCC8"
                /\ \E i \in 1..Len(files) : files[i] = "MP51_007F_03B.scap")
               => warnAboutEFIVersion)

\* the first image set the flag (host board id, newer date), the second has
\* other board ids, and the flag is still set at the end of the run
C12_Witness ==
  /\ pc = "done"
  /\ warnAboutEFIVersion
  /\ myBoardID = HostBoardID
  /\ files = <<"IM142_0118_B00.scap", "MBP143_0167_B00.scap">>
  /\ Len(printed) = 4

====
